---- MODULE Spec2Model ----
(***************************************************************************)
(* Attach-session coordination of ptvsd: the public attach_server module,  *)
(* the inner _remote.enable_attach with its TracingWrapper, and the        *)
(* pydevd_hooks accept loop.                                                *)
(*                                                                         *)
(* Threads: the calling threads (Callers), one 'start-pydevd' thread per   *)
(* inner enable_attach, one 'sessions' thread per listening daemon, and    *)
(* one notify_ready activation per session.                                *)
(***************************************************************************)
EXTENDS Integers, FiniteSets, Sequences, TLC

\* ------------------------------------------------------------------ bounds
MaxOps == 3
MaxSessions == 2

\* ------------------------------------------------------------ thread names
Callers == {1, 2}
EngineThread(c) == c + 10
Threads == Callers \cup {EngineThread(c) : c \in Callers}
Sessions == 1..MaxSessions

\* ------------------------------------------------------- hook/function ids
\* Python function objects that can sit in sys.settrace, in a thread's trace
\* slot (sys.gettrace()) or in a frame's f_trace.  c is the wrapper instance
\* (identified by the thread that built it), 0 for functions that are global.
H(k, c) == [k |-> k, c |-> c]
None == H("None", 0)
Builtin == H("builtin_settrace", 0)
PydevdST == H("pydevd_settrace", 0)
HIDDEN == H("pydevd_trace_dispatch", 0)
UserTrace == H("user_tracefunc", 0)
UserLocal == H("user_local_tracefunc", 0)
WSettrace(c) == H("W._settrace", c)
WTracefunc(c) == H("W._tracefunc", c)
WLocal(c) == H("W._local_tracefunc", c)

NoWrapper == [exists |-> FALSE, tid |-> 0, orig_settrace |-> None,
              orig_tracefunc |-> None, orig_f_tracefunc |-> None,
              revive |-> "None", protected |-> FALSE, skipsHidden |-> FALSE,
              handler |-> "none"]

VARIABLES
  enabled,        \* attach_server._enabled
  attached,       \* attach_server._attached (threading.Event)
  pending,        \* attach_server._pending_threads
  dct,            \* attach_server._debug_current_thread (0 is None)
  pc,             \* position of each calling thread
  call,           \* per caller: the call in progress (address, timeout, ...)
  raised,         \* per caller: exception that ended its last operation
  readylock,      \* per inner enable_attach: the readylock
  daemon,         \* per inner enable_attach: the Daemon made by install()
  startHook,      \* pydevd.start_client/start_server redirection (0: pydevd's)
  server,         \* per inner enable_attach: addr, and the socket its daemon bound
  tstate,         \* per inner enable_attach: the 'start-pydevd' thread t
  W,              \* per calling thread: its TracingWrapper
  sys_settrace,   \* the function bound to sys.settrace
  thook,          \* per thread: sys.gettrace() of that thread
  f_trace,        \* per calling thread: f_trace of the frame calling enable_attach
  origTracing,    \* pydevd_tracing.TracingFunctionHolder._original_tracing
  engine,         \* pydevd globals: connected, ready_to_run
  sthread,        \* per daemon: the 'sessions' thread (serve_forever)
  sess,           \* per session: connection state and notify_ready position
  hist,           \* history: counters of what has been executed
  fake,           \* the FakePyDevd of tests/helpers/pydevd/_fake.py
  launch,         \* a launch session of tests/system_tests/test_launch.py
  isReady,        \* per inner enable_attach: what its is_ready() returns now
  guard,          \* pydevd_hooks.protect_settrace: locks, replace functions
  fw              \* a frame and the FrameWrapper made for it

vars == <<enabled, attached, pending, dct, pc, call, raised, readylock, daemon,
          startHook, server, tstate, W, sys_settrace, thook, f_trace, origTracing,
          engine, sthread, sess, hist, fake, launch, isReady, guard, fw>>

publicVars == <<enabled, attached, pending, dct>>
innerVars == <<readylock, daemon, startHook, server, tstate>>
hookVars == <<W, sys_settrace, thook, f_trace, origTracing>>
netVars == <<engine, sthread, sess>>
helperVars == <<fake, launch, isReady, guard, fw>>
programVars == <<publicVars, pc, call, raised, innerVars, hookVars, netVars, hist>>

\* ------------------------------------------------------------ hook runtime
\* The part of the state the tracing functions work on, as one record.
RT == [ss |-> sys_settrace, th |-> thook, ft |-> f_trace, ot |-> origTracing,
       W |-> W]

SetRT(r) ==
  /\ sys_settrace' = r.ss
  /\ thook' = r.th
  /\ f_trace' = r.ft
  /\ origTracing' = r.ot
  /\ W' = r.W

\* Depth of the longest chain of settrace functions: every wrapper and
\* pydevd's replacement forward at most once each.
ChainFuel == Cardinality(Callers) + 2

\* Calling settrace function f with tracefunc from thread t.
\*   builtin sys.settrace sets the calling thread's trace slot;
\*   TracingWrapper._settrace forwards for foreign threads and only records
\*   the function for its owner thread;
\*   pydevd's replacement of sys.settrace forwards to the saved original.
RECURSIVE CallSettrace(_, _, _, _, _)
CallSettrace_OwnerForwards(r, f, tracefunc, t, fuel) ==
  IF fuel = 0 THEN r
  ELSE IF f = Builtin THEN [r EXCEPT !.th[t] = tracefunc]
  ELSE IF f.k = "W._settrace" THEN
    CallSettrace(r, r.W[f.c].orig_settrace, tracefunc, t, fuel - 1)
  ELSE IF f = PydevdST THEN CallSettrace(r, r.ot, tracefunc, t, fuel - 1)
  ELSE r

CallSettrace(r, f, tracefunc, t, fuel) ==
  IF fuel = 0 THEN r
  ELSE IF f = Builtin THEN [r EXCEPT !.th[t] = tracefunc]
  ELSE IF f.k = "W._settrace" THEN
    IF t # r.W[f.c].tid
      THEN CallSettrace(r, r.W[f.c].orig_settrace, tracefunc, t, fuel - 1)
      ELSE [r EXCEPT !.W[f.c].orig_tracefunc = tracefunc]
  ELSE IF f = PydevdST THEN CallSettrace(r, r.ot, tracefunc, t, fuel - 1)
  ELSE r

\* TracingWrapper._settrace(tracefunc) called on thread t.
W_settrace(r, c, tracefunc, t) == CallSettrace(r, WSettrace(c), tracefunc, t, ChainFuel)

\* sys.settrace(tracefunc) evaluated on thread t: whatever is bound there.
SysSettrace(r, tracefunc, t) == CallSettrace(r, r.ss, tracefunc, t, ChainFuel)

\* pydevd_tracing.restore_sys_set_trace_func / replace_sys_set_trace_func
RestoreSettrace(r) ==
  IF r.ot # None THEN [r EXCEPT !.ss = r.ot, !.ot = None] ELSE r

ReplaceSettrace(r) ==
  IF r.ot = None THEN [r EXCEPT !.ot = r.ss, !.ss = PydevdST] ELSE r

\* pydevd_tracing.SetTrace(f) on thread t: through sys.settrace until the
\* engine has replaced it, through the saved original afterwards.
PydevdSetTrace(r, tracefunc, t) ==
  IF r.ot = None THEN SysSettrace(r, tracefunc, t)
  ELSE CallSettrace(r, r.ot, tracefunc, t, ChainFuel)

\* settrace_restored(): `before` and `after` are both the attribute
\* sys.gettrace (never called, never rebound), so they are the same object.
SysGettraceAttr(r) == "builtin_gettrace"

SettraceRestoredEnter(r) == RestoreSettrace(r)

SettraceRestoredExit(r, before, after) ==
  IF after # before THEN ReplaceSettrace(r) ELSE r

\* TracingWrapper.__init__ on thread c.
NewWrapper(r, c, handler) ==
  [exists |-> TRUE, tid |-> c, orig_settrace |-> r.ss,
   orig_tracefunc |-> r.th[c], orig_f_tracefunc |-> r.ft[c],
   revive |-> "None", protected |-> FALSE, skipsHidden |-> FALSE,
   handler |-> handler]

\* TracingWrapper.install() on thread c.
Install(r0, c) ==
  LET before == SysGettraceAttr(r0)
      r1 == [r0 EXCEPT !.W[c].revive = "revive",
                       !.W[c].protected = TRUE,
                       !.W[c].skipsHidden = (r0.W[c].orig_f_tracefunc = HIDDEN)]
      r2 == SettraceRestoredEnter(r1)
      after == SysGettraceAttr(r2)
      r3 == [r2 EXCEPT !.W[c].orig_settrace = r2.ss]
      r4 == [r3 EXCEPT !.ss = WSettrace(c)]
      r5 == [r4 EXCEPT !.ft[c] = WLocal(c)]
      r6 == SysSettrace(r5, WTracefunc(c), c)
  IN SettraceRestoredExit(r6, before, after)

\* TracingWrapper.uninstall() on thread c.
Uninstall(rr, c) ==
  LET r0 == IF rr.W[c].revive # "None"
              THEN [rr EXCEPT !.W[c].protected = FALSE] ELSE rr
      before == SysGettraceAttr(r0)
      r1 == SettraceRestoredEnter(r0)
      after == SysGettraceAttr(r1)
      r2 == [r1 EXCEPT !.ss = r1.W[c].orig_settrace]
      r3 == [r2 EXCEPT !.ft[c] = r2.W[c].orig_f_tracefunc]
      r4 == SysSettrace(r3, r3.W[c].orig_tracefunc, c)
  IN SettraceRestoredExit(r4, before, after)


\* ------------------------------------------------------------ initial state
\* Endpoints given to enable_attach: "valid" is the default ('0.0.0.0', 5678),
\* "local" is ('127.0.0.1', 5679), "invalid" is malformed.
Addresses == {"valid", "invalid"}
BindAddresses == {"valid", "local", "invalid"}

\* addr.host and addr.port of Address.as_server(host, port)
HostOf(address) == IF address = "local" THEN "127.0.0.1" ELSE "0.0.0.0"
PortOf(address) == IF address = "local" THEN 5679 ELSE 5678

NoSock == [host |-> "none", port |-> 0]
NoServer == [addr |-> "none", sock |-> NoSock]
Timeouts == {"None", "finite"}

Zero == [c \in Callers |-> 0]

InitHist ==
  [daemons |-> 0, installs |-> 0, threads |-> 0, onAttach |-> 0,
   ops |-> Zero, calls |-> Zero, returned |-> Zero, events |-> Zero,
   handled |-> Zero,
   enable |-> Zero, uninstall |-> Zero, release |-> Zero, chained |-> Zero,
   first |-> [c \in Callers |-> "none"],
   pre |-> [c \in Callers |-> [ss |-> None, th |-> None, ft |-> None]],
   detached |-> FALSE,
   fails |-> Zero, failAt |-> [c \in Callers |-> {}],
   suspends |-> Zero,
   settrace |-> [t |-> 0, f |-> None, n |-> 0]]

NoCall == [op |-> "none", address |-> "valid", timeout |-> "None", via |-> "none",
           inv |-> 0, ret |-> "none", woke |-> FALSE, last |-> "none",
           sawAttached |-> FALSE, ready |-> FALSE]

\* What can be installed before ptvsd is used: no tracer, a tracer of the
\* user's (with its local function in the calling frame), or pydevd's own
\* dispatch; sys.settrace is the builtin, or pydevd's replacement of it.
InitHooks == {None, UserTrace, HIDDEN}
InitLocalHooks(h) ==
  IF h = UserTrace THEN {None, UserLocal}
  ELSE IF h = HIDDEN THEN {None, HIDDEN}
  ELSE {None}
InitSettrace == {<<Builtin, None>>, <<PydevdST, Builtin>>}

\* No FakePyDevd has been constructed and no launch test has started.
NoMessage == [cmdid |-> 0, seq |-> 0, text |-> ""]
NoFake ==
  [state |-> "none", handler |-> "None", matchers |-> <<>>, sent |-> <<>>,
   failures |-> 0, received |-> 0, ops |-> 0,
   last |-> [req |-> NoMessage, matchers |-> <<>>, replies |-> <<>>,
             raised |-> FALSE]]
NoLaunch == [cls |-> "none", test |-> "none", received |-> <<>>]

\* Values of attributes and results of the frame wrapper's methods.
Line(n) == H("line", n)
FrameObj == H("frame", 0)
WrapperObj == H("FrameWrapper", 0)
RecursionError == H("RecursionError", 0)
AttributeError == H("AttributeError", 0)

\* A frame with its f_trace and f_lineno, and no FrameWrapper object yet.
\*   attrs: the instance __dict__ of the wrapper, as <<name, value>> pairs
\*   op, name, value, result: the last operation and what it gave
\*   old: the frame's attributes before the last operation
NoFW == [frame |-> [f_trace |-> None, f_lineno |-> Line(1)],
         exists |-> FALSE, attrs |-> {},
         op |-> "none", name |-> "none", value |-> None, result |-> None,
         old |-> [f_trace |-> None, f_lineno |-> Line(1)], ops |-> 0]

\* protect_settrace has not been entered: pydevd_tracing's
\* replace_sys_set_trace_func is pydevd's own (0), no lock exists.
\*   attr: the function bound to pydevd_tracing.replace_sys_set_trace_func,
\*         0 for pydevd's, i for the replace() closure of context i
\*   lock: the lock of context i
\*   ctx:  the context each thread is inside (0: none)
\*   wait: per thread calling the replace function: the context whose lock
\*         it waits for, Passed once it has acquired and released it
Passed == 0 - 1
NoGuard == [attr |-> 0, n |-> 0, calls |-> 0,
            lock |-> [i \in 1..MaxOps |-> "none"],
            ctx |-> [t \in Threads |-> 0],
            wait |-> [t \in Threads |-> 0]]

InitCommon ==
  /\ enabled = FALSE
  /\ attached = FALSE
  /\ pending = {}
  /\ dct = 0
  /\ call = [c \in Callers |-> NoCall]
  /\ raised = [c \in Callers |-> "none"]
  /\ readylock = [c \in Callers |-> "none"]
  /\ daemon = [c \in Callers |-> "none"]
  /\ startHook = 0
  /\ server = [c \in Callers |-> NoServer]
  /\ tstate = [c \in Callers |-> "unassigned"]
  /\ W = [c \in Callers |-> NoWrapper]
  /\ \E st \in InitSettrace : sys_settrace = st[1] /\ origTracing = st[2]
  /\ \E h \in InitHooks :
       /\ thook = [t \in Threads |-> IF t \in Callers THEN h ELSE None]
       /\ \E f \in InitLocalHooks(h) : f_trace = [c \in Callers |-> f]
  /\ engine = [connected |-> FALSE, ready_to_run |-> FALSE, lock |-> 0]
  /\ sthread = [c \in Callers |-> "none"]
  /\ sess = [s \in Sessions |-> [conn |-> "none", nr |-> "idle", d |-> 0]]
  /\ hist = InitHist
  /\ fake = NoFake
  /\ launch = NoLaunch
  /\ isReady = [c \in Callers |-> TRUE]
  /\ guard = NoGuard
  /\ fw = NoFW

Init ==
  /\ InitCommon
  /\ pc = [c \in Callers |-> IF c = 1 THEN "user" ELSE "absent"]

\* --------------------------------------------- attach_server.enable_attach
AlreadyEnabled_Unchecked == FALSE

\* line 75: if _enabled: return
AlreadyEnabled == enabled

CallEnableAttach(c, address) ==
  /\ pc[c] = "user"
  /\ hist.ops[c] < MaxOps
  /\ pc' = [pc EXCEPT ![c] = "ea_check"]
  /\ call' = [call EXCEPT ![c] = [NoCall EXCEPT !.op = "enable_attach",
                                               !.address = address]]
  /\ raised' = [raised EXCEPT ![c] = "none"]
  /\ hist' = [hist EXCEPT !.calls[c] = @ + 1, !.ops[c] = @ + 1,
                          !.first[c] = IF @ = "none" THEN address ELSE @]
  /\ UNCHANGED <<publicVars, innerVars, hookVars, netVars>>
  /\ UNCHANGED helperVars

Return(c, what) ==
  /\ pc' = [pc EXCEPT ![c] = "user"]
  /\ call' = [call EXCEPT ![c].last = what, ![c].sawAttached = attached,
                          ![c].ready = FALSE]
  /\ UNCHANGED helperVars

EA_Check(c) ==
  /\ pc[c] = "ea_check"
  /\ IF AlreadyEnabled
       THEN /\ Return(c, "enable_attach")
            /\ hist' = [hist EXCEPT !.returned[c] = @ + 1]
       ELSE /\ pc' = [pc EXCEPT ![c] = "ea_set"]
            /\ UNCHANGED <<call, hist>>
  /\ UNCHANGED <<publicVars, raised, innerVars, hookVars, netVars>>
  /\ UNCHANGED helperVars

\* line 77: _enabled = True
EA_Set(c) ==
  /\ pc[c] = "ea_set"
  /\ enabled' = TRUE
  /\ pc' = [pc EXCEPT ![c] = "ea_clear"]
  /\ UNCHANGED <<attached, pending, dct, call, raised, innerVars, hookVars,
                 netVars, hist>>
  /\ UNCHANGED helperVars

\* line 78: _attached.clear()
EA_Clear(c) ==
  /\ pc[c] = "ea_clear"
  /\ attached' = FALSE
  /\ pc' = [pc EXCEPT ![c] = "ea_install"]
  /\ UNCHANGED <<enabled, pending, dct, call, raised, innerVars, hookVars,
                 netVars, hist>>
  /\ UNCHANGED helperVars

\* Address.as_server(*address): raises for a malformed endpoint.
AddressOK(address) == address \in {"valid", "local"}

Raise(c, exc) ==
  /\ pc' = [pc EXCEPT ![c] = "user"]
  /\ raised' = [raised EXCEPT ![c] = exc]
  /\ call' = [call EXCEPT ![c].last = "raised", ![c].sawAttached = attached,
                          ![c].ready = FALSE]
  /\ UNCHANGED helperVars

\* _remote.enable_attach lines 45-67: the address, the readylock (created and
\* acquired), and install(): a new Daemon to which pydevd's start_server and
\* start_client are redirected.
EA_Install(c) ==
  /\ pc[c] = "ea_install"
  /\ IF ~AddressOK(call[c].address)
       THEN /\ Raise(c, "InvalidAddress")
            /\ UNCHANGED <<innerVars, hist>>
       ELSE /\ readylock' = [readylock EXCEPT ![c] = "Held"]
            /\ daemon' = [daemon EXCEPT ![c] = "created"]
            /\ startHook' = c
            /\ server' = [server EXCEPT ![c] = [addr |-> call[c].address,
                                                 sock |-> NoSock]]
            /\ hist' = [hist EXCEPT !.daemons = @ + 1]
            /\ pc' = [pc EXCEPT ![c] = "ea_arm"]
            /\ UNCHANGED <<tstate, call, raised>>
  /\ UNCHANGED <<publicVars, hookVars, netVars>>
  /\ UNCHANGED helperVars

\* The three hook values of thread c that install() replaces.
PreInstall(c) == [ss |-> sys_settrace, th |-> thook[c], ft |-> f_trace[c]]

\* _ensure_current_thread_will_debug: TracingWrapper(handle_tracing).install()
EA_Arm(c) ==
  /\ pc[c] = "ea_arm"
  /\ LET r == [RT EXCEPT !.W[c] = NewWrapper(RT, c, "handle_tracing")]
     IN SetRT(Install(r, c))
  /\ hist' = [hist EXCEPT !.installs = @ + 1, !.pre[c] = PreInstall(c)]
  /\ pc' = [pc EXCEPT ![c] = "ea_thread"]
  /\ UNCHANGED <<publicVars, call, raised, innerVars, netVars>>
  /\ UNCHANGED helperVars

\* lines 108-109: t = new_hidden_thread('start-pydevd', start_pydevd); t.start()
EA_StartThread(c) ==
  /\ pc[c] = "ea_thread"
  /\ tstate' = [tstate EXCEPT ![c] = "started"]
  /\ hist' = [hist EXCEPT !.threads = @ + 1]
  /\ pc' = [pc EXCEPT ![c] = "ea_ret"]
  /\ UNCHANGED <<publicVars, call, raised, readylock, daemon, startHook, server,
                 hookVars, netVars>>
  /\ UNCHANGED helperVars

\* line 111: what the inner enable_attach returns.
InnerReturn == "daemon"

\* attach_server line 88: `_, wait, debug_current_thread = ...` needs a
\* sequence of three items; a Daemon is not one.
CanUnpack3(value) == value = "triple"

\* The inner call returns and the public function unpacks the result.
EA_Return(c) ==
  /\ pc[c] = "ea_ret"
  /\ call[c].op = "enable_attach"
  /\ IF CanUnpack3(InnerReturn)
       THEN \* lines 93-101, in the branch where wait(WAIT_TIMEOUT) is false
            /\ dct' = c
            /\ pending' = pending \cup {c}
            /\ Return(c, "enable_attach")
            /\ hist' = [hist EXCEPT !.returned[c] = @ + 1]
            /\ UNCHANGED raised
       ELSE /\ Raise(c, "TypeError")
            /\ UNCHANGED <<dct, pending, hist>>
  /\ UNCHANGED <<enabled, attached, innerVars, hookVars, netVars>>
  /\ UNCHANGED helperVars


\* ------------------------------------------------------ instrumented events
\* The interpreter traces a thread only while that thread has a trace
\* function: a 'call' event goes to the thread's trace function, a 'line'
\* event of a frame goes to the frame's f_trace.
TracingActive(t) == thook[t] # None

\* is_ready() of the enable_attach call made on thread c: the public
\* enable_attach passes none, so it is (lambda: True); a direct caller of
\* _remote.enable_attach gives its own.
is_ready_Ignored(c) == TRUE

is_ready(c) == isReady[c]

\* A wrapper function has been entered on thread c for an event: it calls
\* self._handle_call() first.  handle_tracing returns at once when not ready.
\* (call.ready: this is the thread's first such event and a client had
\* already told the engine to run.)
EnterWrapper(c, via) ==
  /\ hist' = [hist EXCEPT !.events[c] = @ + 1, !.handled[c] = @ + 1,
                          !.ops[c] = @ + 1]
  /\ IF W[c].handler = "handle_tracing" /\ is_ready(c)
       THEN /\ pc' = [pc EXCEPT ![c] = "dct_join"]
            /\ call' = [call EXCEPT ![c] = [NoCall EXCEPT !.op = "event",
                          !.via = via, !.inv = c, !.ret = "handle_tracing",
                          !.ready = (hist.handled[c] = 0
                                       /\ engine.ready_to_run)]]
       ELSE /\ pc' = [pc EXCEPT ![c] = "tf_finish"]
            /\ call' = [call EXCEPT ![c] = [NoCall EXCEPT !.op = "event",
                          !.via = via, !.inv = c]]
  /\ UNCHANGED helperVars

\* A 'call' event on thread c (a function is entered).
EventCall(c) ==
  /\ pc[c] = "user"
  /\ hist.ops[c] < MaxOps
  /\ TracingActive(c)
  /\ IF thook[c].k = "W._tracefunc"
       THEN EnterWrapper(c, "global")
       ELSE /\ hist' = [hist EXCEPT !.events[c] = @ + 1, !.ops[c] = @ + 1]
            /\ call' = [call EXCEPT ![c] = [NoCall EXCEPT !.op = "event"]]
            /\ UNCHANGED pc
  /\ UNCHANGED <<publicVars, raised, innerVars, hookVars, netVars>>
  /\ UNCHANGED helperVars

\* What a local trace function of the user returns: itself, or None.
LocalResults == {UserLocal, None}

\* The interpreter's trampoline: a result other than None becomes f_trace.
Trampoline(ft, c, result) == IF result # None THEN [ft EXCEPT ![c] = result] ELSE ft

\* A 'line' event in the frame that called enable_attach.
EventLine(c) ==
  /\ pc[c] = "user"
  /\ hist.ops[c] < MaxOps
  /\ TracingActive(c)
  /\ f_trace[c] # None
  /\ IF f_trace[c].k = "W._local_tracefunc"
       THEN /\ EnterWrapper(c, "local")
            /\ UNCHANGED f_trace
       ELSE /\ hist' = [hist EXCEPT !.events[c] = @ + 1, !.ops[c] = @ + 1]
            /\ call' = [call EXCEPT ![c] = [NoCall EXCEPT !.op = "event"]]
            /\ \E result \in (IF f_trace[c] = UserLocal THEN LocalResults ELSE {f_trace[c]}) :
                 f_trace' = Trampoline(f_trace, c, result)
            /\ UNCHANGED pc
  /\ UNCHANGED <<publicVars, raised, innerVars, W, sys_settrace, thook,
                 origTracing, netVars>>
  /\ UNCHANGED helperVars

\* ------------------------------------------- debug_current_thread (closure)
\* pydevd.settrace(trace_only_current_thread=True) on thread t once the
\* engine is connected: the thread's trace function becomes pydevd's
\* dispatch, and a frame without a local trace function gets it as well
\* unless its f_trace is protected.
EngineSettraceCurrent(r, t) ==
  LET r1 == PydevdSetTrace(r, HIDDEN, t)
  IN IF t \in Callers /\ r1.ft[t] = None /\ ~r1.W[t].protected
       THEN [r1 EXCEPT !.ft[t] = HIDDEN] ELSE r1

DCT_Join_NoWait(c) ==
  /\ pc[c] = "dct_join"
  /\ pc' = [pc EXCEPT ![c] = "dct_settrace"]
  /\ UNCHANGED <<publicVars, call, raised, innerVars, hookVars, netVars, hist>>
  /\ UNCHANGED helperVars

\* line 74: t.join().  t is assigned on line 108, after the wrapper is armed.
DCT_Join(c) ==
  /\ pc[c] = "dct_join"
  /\ IF tstate[call[c].inv] = "unassigned"
       THEN /\ Raise(c, "NameError")
            /\ thook' = [thook EXCEPT ![c] = None]
       ELSE /\ tstate[call[c].inv] = "finished"
            /\ pc' = [pc EXCEPT ![c] = "dct_settrace"]
            /\ UNCHANGED <<call, raised, thook>>
  /\ UNCHANGED <<publicVars, innerVars, W, sys_settrace, f_trace, origTracing,
                 netVars, hist>>
  /\ UNCHANGED helperVars

\* lines 76-87: _settrace(..., trace_only_current_thread=True, ...)
DCT_Settrace(c) ==
  /\ pc[c] = "dct_settrace"
  /\ engine.lock = 0
  /\ SetRT(EngineSettraceCurrent(RT, c))
  /\ hist' = [hist EXCEPT !.enable[c] = @ + 1]
  /\ IF call[c].ret = "handle_tracing"
       THEN pc' = [pc EXCEPT ![c] = "ht_uninstall"] /\ UNCHANGED call
       ELSE Return(c, "wait_for_attach")
  /\ UNCHANGED <<publicVars, raised, innerVars, netVars>>
  /\ UNCHANGED helperVars

\* ----------------------------------------------------------- handle_tracing
\* line 138: tracing.uninstall()
HT_Uninstall(c) ==
  /\ pc[c] = "ht_uninstall"
  /\ SetRT(Uninstall(RT, c))
  /\ hist' = [hist EXCEPT !.uninstall[c] = @ + 1]
  /\ pc' = [pc EXCEPT ![c] = "ht_release"]
  /\ UNCHANGED <<publicVars, call, raised, innerVars, netVars>>
  /\ UNCHANGED helperVars

\* _util.lock_release(lock): release(), a lock that is not held is left alone.
lock_release(lock) == IF lock = "Held" THEN "Released" ELSE lock

\* line 141: lock_release(readylock)
HT_Release(c) ==
  /\ pc[c] = "ht_release"
  /\ readylock' = [readylock EXCEPT ![c] = lock_release(@)]
  /\ hist' = [hist EXCEPT !.release[c] = @ + 1]
  /\ pc' = [pc EXCEPT ![c] = "tf_finish"]
  /\ UNCHANGED <<publicVars, call, raised, daemon, startHook, server, tstate, hookVars,
                 netVars>>
  /\ UNCHANGED helperVars

\* The rest of the wrapper function after self._handle_call():
\*   _local_tracefunc chains to the saved local function unless that was
\*   pydevd's dispatch at install time, keeps its result as the saved value
\*   and returns itself (which the trampoline stores in f_trace);
\*   _tracefunc chains to the saved trace function; when that is the wrapper's
\*   own _tracefunc the recursion ends in RecursionError, and an exception
\*   leaving a trace function makes the interpreter drop the thread's tracing.
TF_Finish(c) ==
  /\ pc[c] = "tf_finish"
  /\ IF call[c].via = "local"
       THEN /\ IF ~W[c].skipsHidden /\ W[c].orig_f_tracefunc # None
                 THEN /\ \E result \in (IF W[c].orig_f_tracefunc = UserLocal
                                          THEN LocalResults
                                          ELSE {W[c].orig_f_tracefunc}) :
                           W' = [W EXCEPT ![c].orig_f_tracefunc = result]
                      /\ hist' = [hist EXCEPT !.chained[c] = @ + 1]
                 ELSE UNCHANGED <<W, hist>>
            /\ f_trace' = Trampoline(f_trace, c, WLocal(c))
            /\ Return(c, "event")
            /\ UNCHANGED <<thook, raised>>
       ELSE /\ IF W[c].orig_tracefunc = WTracefunc(c)
                 THEN /\ Raise(c, "RecursionError")
                      /\ thook' = [thook EXCEPT ![c] = None]
                      /\ UNCHANGED hist
                 ELSE /\ Return(c, "event")
                      /\ hist' = [hist EXCEPT !.chained[c] =
                                    IF W[c].orig_tracefunc # None THEN @ + 1 ELSE @]
                      /\ UNCHANGED <<thook, raised>>
            /\ UNCHANGED <<W, f_trace>>
  /\ UNCHANGED <<publicVars, innerVars, sys_settrace, origTracing, netVars>>
  /\ UNCHANGED helperVars

\* ------------------------------------------- attach_server.wait_for_attach
CallWaitForAttach(c, timeout) ==
  /\ pc[c] = "user"
  /\ hist.ops[c] < MaxOps
  /\ pc' = [pc EXCEPT ![c] = "wfa_wait"]
  /\ call' = [call EXCEPT ![c] = [NoCall EXCEPT !.op = "wait_for_attach",
                                               !.timeout = timeout,
                                               !.ready = hist.onAttach > 0]]
  /\ raised' = [raised EXCEPT ![c] = "none"]
  /\ hist' = [hist EXCEPT !.ops[c] = @ + 1]
  /\ UNCHANGED <<publicVars, innerVars, hookVars, netVars>>
  /\ UNCHANGED helperVars

EventWaitCanReturn_Spurious(isSet, timeout) == TRUE

EventWaitCanReturn_NoTimeout(isSet, timeout) == isSet

\* threading.Event.wait(timeout): returns once the event is set, or, with a
\* timeout, once the timeout has elapsed.
EventWaitCanReturn(isSet, timeout) == isSet \/ timeout # "None"

\* line 35: _attached.wait(timeout)
WFA_Wait(c) ==
  /\ pc[c] = "wfa_wait"
  /\ EventWaitCanReturn(attached, call[c].timeout)
  /\ call' = [call EXCEPT ![c].woke = attached]
  /\ pc' = [pc EXCEPT ![c] = "wfa_pending"]
  /\ UNCHANGED <<publicVars, raised, innerVars, hookVars, netVars, hist>>
  /\ UNCHANGED helperVars

\* lines 37-43: the calling thread's own enabling, if it is pending.
WFA_Pending(c) ==
  /\ pc[c] = "wfa_pending"
  /\ IF c \in pending
       THEN /\ pending' = pending \ {c}
            /\ pc' = [pc EXCEPT ![c] = "dct_join"]
            /\ call' = [call EXCEPT ![c].inv = dct, ![c].ret = "wait_for_attach"]
       ELSE /\ Return(c, "wait_for_attach")
            /\ UNCHANGED pending
  /\ UNCHANGED <<enabled, attached, dct, raised, innerVars, hookVars, netVars,
                 hist>>
  /\ UNCHANGED helperVars

\* line 109: _attached.isSet()
is_attached == attached

\* --------------------------------------- attach_server.break_into_debugger
CallBreakIntoDebugger(c) ==
  /\ pc[c] = "user"
  /\ hist.ops[c] < MaxOps
  /\ pc' = [pc EXCEPT ![c] = "bid_check"]
  /\ call' = [call EXCEPT ![c] = [NoCall EXCEPT !.op = "break_into_debugger"]]
  /\ raised' = [raised EXCEPT ![c] = "none"]
  /\ hist' = [hist EXCEPT !.ops[c] = @ + 1]
  /\ UNCHANGED <<publicVars, innerVars, hookVars, netVars>>
  /\ UNCHANGED helperVars

ShouldBreak_EnabledOnly == enabled

\* line 116: if not _attached.isSet() or not _enabled: return
ShouldBreak == attached /\ enabled

BID_Check(c) ==
  /\ pc[c] = "bid_check"
  /\ IF ShouldBreak
       THEN pc' = [pc EXCEPT ![c] = "bid_settrace"] /\ UNCHANGED call
       ELSE Return(c, "break_into_debugger")
  /\ UNCHANGED <<publicVars, raised, innerVars, hookVars, netVars, hist>>
  /\ UNCHANGED helperVars

\* lines 120-125: _pydevd_settrace(suspend=True, trace_only_current_thread=True,
\* ...): pydevd.settrace under its lock; the engine, connected since the
\* attach, traces the calling thread and is asked to suspend.
BID_Settrace(c) ==
  /\ pc[c] = "bid_settrace"
  /\ engine.lock = 0
  /\ engine.connected
  /\ SetRT(EngineSettraceCurrent(RT, c))
  /\ hist' = [hist EXCEPT !.suspends[c] = @ + 1]
  /\ Return(c, "break_into_debugger")
  /\ UNCHANGED <<publicVars, raised, innerVars, netVars>>
  /\ UNCHANGED helperVars


\* ------------------------------------------------- the 'start-pydevd' thread
\* start_pydevd passes port=addr.port and no host (lines 100-106).
StartPydevdHost == "None"

\* pydevd.settrace: a host of None becomes the local host, and with a host
\* the engine always connects as a client: start_client(host, port).
SettraceHost(host) == IF host = "None" THEN "127.0.0.1" ELSE host

\* The redirected start_client, (lambda h, p: start_server(daemon, h, p)),
\* hands pydevd's host and port to daemon.start_server((host, port)).
BoundSocket(host, port) == [host |-> SettraceHost(host), port |-> port]

\* start_pydevd: _settrace(port=addr.port, ...) is pydevd.settrace, which
\* takes pydevd's settrace lock and, when not yet connected, asks for its
\* socket through the redirected start_client: hooks.start_server(daemon),
\* which makes the daemon listen and starts the 'sessions' thread.
P_Connect_WaitsInitial(c) ==
  /\ tstate[c] = "started"
  /\ engine.lock = 0
  /\ ~engine.connected
  /\ sess[1].conn = "none"
  /\ daemon' = [daemon EXCEPT ![startHook] = "listening"]
  /\ sthread' = [sthread EXCEPT ![startHook] = "loop"]
  /\ sess' = [sess EXCEPT ![1] = [conn |-> "open", nr |-> "idle", d |-> startHook]]
  /\ engine' = [engine EXCEPT !.connected = TRUE, !.lock = EngineThread(c)]
  /\ tstate' = [tstate EXCEPT ![c] = "waitrun"]
  /\ UNCHANGED <<publicVars, pc, call, raised, readylock, startHook, server, hookVars,
                 hist>>
  /\ UNCHANGED helperVars

P_Connect(c) ==
  /\ tstate[c] = "started"
  /\ engine.lock = 0
  /\ IF ~engine.connected
       THEN /\ daemon' = [daemon EXCEPT ![startHook] = "listening"]
            /\ server' = [server EXCEPT ![startHook].sock =
                             BoundSocket(StartPydevdHost, PortOf(server[c].addr))]
            /\ sthread' = [sthread EXCEPT ![startHook] = "initial"]
            /\ engine' = [engine EXCEPT !.connected = TRUE, !.lock = EngineThread(c)]
            /\ tstate' = [tstate EXCEPT ![c] = "waitrun"]
            /\ UNCHANGED hookVars
       ELSE /\ SetRT(PydevdSetTrace(RT, HIDDEN, EngineThread(c)))
            /\ tstate' = [tstate EXCEPT ![c] = "finished"]
            /\ UNCHANGED <<daemon, server, sthread, engine>>
  /\ UNCHANGED <<publicVars, pc, call, raised, readylock, startHook, sess, hist>>
  /\ UNCHANGED helperVars

\* pydevd.settrace returns once the engine has been told to run.
P_Run(c) ==
  /\ tstate[c] = "waitrun"
  /\ engine.ready_to_run
  /\ SetRT(PydevdSetTrace(RT, HIDDEN, EngineThread(c)))
  /\ engine' = [engine EXCEPT !.lock = 0]
  /\ tstate' = [tstate EXCEPT ![c] = "finished"]
  /\ UNCHANGED <<publicVars, pc, call, raised, readylock, daemon, startHook, server,
                 sthread, sess, hist>>
  /\ UNCHANGED helperVars

\* ---------------------------------------- pydevd_hooks.start_server: sessions
\* serve_forever: the first handle_next() is outside the try, the later ones
\* inside.  handle_next returns the session, returns None after any other
\* exception, and re-raises DaemonClosedError/DaemonStoppedError.
AfterHandleNext_FailEnds(where, outcome) ==
  IF outcome = "session" THEN "loop"
  ELSE IF where = "initial" THEN "died" ELSE "done"

AfterHandleNext(where, outcome) ==
  IF outcome \in {"session", "failed"} THEN "loop"
  ELSE IF where = "initial" THEN "died" ELSE "done"

FreeSessions == {s \in Sessions : sess[s].conn = "none"}

S_Accept_BeforeStart(k) ==
  /\ daemon[k] \in {"created", "listening"}
  /\ FreeSessions # {}
  /\ LET s == CHOOSE x \in FreeSessions : \A y \in FreeSessions : x <= y
     IN sess' = [sess EXCEPT ![s] = [conn |-> "open", nr |-> "idle", d |-> k]]
  /\ sthread' = [sthread EXCEPT ![k] = "loop"]
  /\ UNCHANGED <<publicVars, pc, call, raised, innerVars, hookVars, engine,
                 hist>>
  /\ UNCHANGED helperVars

\* handle_next: next_session() returns once the listening daemon has accepted
\* a connection.
S_Accept(k) ==
  /\ sthread[k] \in {"initial", "loop"}
  /\ daemon[k] = "listening"
  /\ FreeSessions # {}
  /\ LET s == CHOOSE x \in FreeSessions : \A y \in FreeSessions : x <= y
     IN sess' = [sess EXCEPT ![s] = [conn |-> "open", nr |-> "idle", d |-> k]]
  /\ sthread' = [sthread EXCEPT ![k] = AfterHandleNext(@, "session")]
  /\ UNCHANGED <<publicVars, pc, call, raised, innerVars, hookVars, engine,
                 hist>>
  /\ UNCHANGED helperVars

\* handle_next: next_session() raises something other than the two daemon
\* errors (a bad handshake, a failing session start).
S_Fail(k) ==
  /\ sthread[k] \in {"initial", "loop"}
  /\ daemon[k] = "listening"
  /\ hist.fails[k] < MaxOps
  /\ sthread' = [sthread EXCEPT ![k] = AfterHandleNext(@, "failed")]
  /\ hist' = [hist EXCEPT !.fails[k] = @ + 1, !.failAt[k] = @ \cup {sthread[k]}]
  /\ UNCHANGED <<publicVars, pc, call, raised, innerVars, hookVars, engine,
                 sess>>
  /\ UNCHANGED helperVars

S_Stopped(k) ==
  /\ sthread[k] \in {"initial", "loop"}
  /\ daemon[k] = "closed"
  /\ sthread' = [sthread EXCEPT ![k] = AfterHandleNext(@, "stopped")]
  /\ UNCHANGED <<publicVars, pc, call, raised, innerVars, hookVars, engine,
                 sess, hist>>
  /\ UNCHANGED helperVars

\* The daemon is shut down.
DaemonClose(k) ==
  /\ daemon[k] = "listening"
  /\ daemon' = [daemon EXCEPT ![k] = "closed"]
  /\ UNCHANGED <<publicVars, pc, call, raised, readylock, startHook, server, tstate,
                 hookVars, netVars, hist>>
  /\ UNCHANGED helperVars

\* --------------------------------------------------------- session, notify
\* The session's debugger is ready: the engine is told to run and the daemon
\* calls notify_session_debugger_ready(session), which is notify_ready.
SessionReady(s) ==
  /\ sess[s].conn = "open"
  /\ sess[s].nr = "idle"
  /\ engine' = [engine EXCEPT !.ready_to_run = TRUE]
  /\ sess' = [sess EXCEPT ![s].nr = "on_attach"]
  /\ UNCHANGED <<publicVars, pc, call, raised, innerVars, hookVars, sthread,
                 hist>>
  /\ UNCHANGED helperVars

\* line 90: on_attach=_attached.set
on_attach == TRUE

\* line 51: on_attach()
NR_OnAttach(s) ==
  /\ sess[s].nr = "on_attach"
  /\ attached' = on_attach
  /\ hist' = [hist EXCEPT !.onAttach = @ + 1]
  /\ sess' = [sess EXCEPT ![s].nr = "acquire"]
  /\ UNCHANGED <<enabled, pending, dct, pc, call, raised, innerVars, hookVars,
                 engine, sthread>>
  /\ UNCHANGED helperVars

\* line 54: readylock.acquire()
NR_Acquire(s) ==
  /\ sess[s].nr = "acquire"
  /\ readylock[sess[s].d] = "Released"
  /\ readylock' = [readylock EXCEPT ![sess[s].d] = "Held"]
  /\ sess' = [sess EXCEPT ![s].nr = "release"]
  /\ UNCHANGED <<publicVars, pc, call, raised, daemon, startHook, server, tstate,
                 hookVars, engine, sthread, hist>>
  /\ UNCHANGED helperVars

NR_Release_Forgotten(s) ==
  /\ sess[s].nr = "release"
  /\ sess' = [sess EXCEPT ![s].nr = "returned"]
  /\ UNCHANGED <<publicVars, pc, call, raised, innerVars, hookVars, engine,
                 sthread, hist>>
  /\ UNCHANGED helperVars

\* line 55: readylock.release(); releasing a lock that is not held raises.
NR_Release(s) ==
  /\ sess[s].nr = "release"
  /\ IF readylock[sess[s].d] = "Held"
       THEN /\ readylock' = [readylock EXCEPT ![sess[s].d] = "Released"]
            /\ sess' = [sess EXCEPT ![s].nr = "returned"]
       ELSE /\ sess' = [sess EXCEPT ![s].nr = "RuntimeError"]
            /\ UNCHANGED readylock
  /\ UNCHANGED <<publicVars, pc, call, raised, daemon, startHook, server, tstate,
                 hookVars, engine, sthread, hist>>
  /\ UNCHANGED helperVars

\* The client detaches: its connection ends.
SessionClose(s) ==
  /\ sess[s].conn = "open"
  /\ sess[s].nr \notin {"idle", "on_attach"}
  /\ sess' = [sess EXCEPT ![s].conn = "closed"]
  /\ hist' = [hist EXCEPT !.detached = TRUE]
  /\ UNCHANGED <<publicVars, pc, call, raised, innerVars, hookVars, engine,
                 sthread>>
  /\ UNCHANGED helperVars

\* ------------------------------------------------------------ specification
CallerStep(c) ==
  \/ \E address \in Addresses : CallEnableAttach(c, address)
  \/ EA_Check(c)
  \/ EA_Set(c)
  \/ EA_Clear(c)
  \/ EA_Install(c)
  \/ EA_Arm(c)
  \/ EA_StartThread(c)
  \/ EA_Return(c)
  \/ EventCall(c)
  \/ EventLine(c)
  \/ DCT_Join(c)
  \/ DCT_Settrace(c)
  \/ HT_Uninstall(c)
  \/ HT_Release(c)
  \/ TF_Finish(c)
  \/ \E timeout \in Timeouts : CallWaitForAttach(c, timeout)
  \/ WFA_Wait(c)
  \/ WFA_Pending(c)

EngineStep(c) ==
  \/ P_Connect(c)
  \/ P_Run(c)

DaemonStep(k) ==
  \/ S_Accept(k)
  \/ S_Fail(k)
  \/ S_Stopped(k)
  \/ DaemonClose(k)

SessionStep(s) ==
  \/ SessionReady(s)
  \/ NR_OnAttach(s)
  \/ NR_Acquire(s)
  \/ NR_Release(s)
  \/ SessionClose(s)

Next ==
  \/ \E c \in Callers : CallerStep(c)
  \/ \E c \in Callers : EngineStep(c)
  \/ \E k \in Callers : S_Accept(k)
  \/ \E s \in Sessions : SessionStep(s)

Spec == Init /\ [][Next]_vars

\* The operating system schedules every thread that can run: each calling
\* thread and each 'start-pydevd' thread takes its next step when it has
\* one.  Nothing makes a client connect.
Fairness ==
  \A c \in Callers : WF_vars(CallerStep(c)) /\ WF_vars(EngineStep(c))

SpecFair == Spec /\ Fairness


\* One call of enable_attach, step by step.
EnableAttachStep(c) ==
  \/ \E address \in Addresses : CallEnableAttach(c, address)
  \/ EA_Check(c)
  \/ EA_Set(c)
  \/ EA_Clear(c)
  \/ EA_Install(c)
  \/ EA_Arm(c)
  \/ EA_StartThread(c)
  \/ EA_Return(c)

\* ------------------------------------- the daemon's accept loop on its own
\* enable_attach, the engine's request for its socket, and the 'sessions'
\* thread with connections that succeed, fail, or find the daemon closed.
NextDaemon ==
  \/ \E c \in Callers : EnableAttachStep(c)
  \/ \E c \in Callers : P_Connect(c)
  \/ \E k \in Callers : DaemonStep(k)

SpecDaemon == Init /\ [][NextDaemon]_vars

\* ----------------------------------------------------- break_into_debugger
\* enable_attach, a client that attaches, and calls of break_into_debugger
\* at any moment.
BreakStep(c) ==
  \/ CallBreakIntoDebugger(c)
  \/ BID_Check(c)
  \/ BID_Settrace(c)

NextBreak ==
  \/ \E c \in Callers : EnableAttachStep(c)
  \/ \E c \in Callers : BreakStep(c)
  \/ \E c \in Callers : EngineStep(c)
  \/ \E k \in Callers : S_Accept(k)
  \/ \E s \in Sessions : SessionReady(s) \/ NR_OnAttach(s)

SpecBreak == Init /\ [][NextBreak]_vars

\* --------------------------------------------- where the daemon is bound
\* enable_attach with any endpoint, and the engine's request for its socket.
BindStep(c) ==
  \/ \E address \in BindAddresses : CallEnableAttach(c, address)
  \/ EA_Check(c)
  \/ EA_Set(c)
  \/ EA_Clear(c)
  \/ EA_Install(c)
  \/ EA_Arm(c)
  \/ EA_StartThread(c)
  \/ EA_Return(c)
  \/ P_Connect(c)

NextBind == \E c \in Callers : BindStep(c)

SpecBind == Init /\ [][NextBind]_vars

\* ------------------------------------------- two threads enabling at once
InitRace ==
  /\ InitCommon
  /\ pc = [c \in Callers |-> "user"]

NextRace ==
  \/ \E c \in Callers : EnableAttachStep(c)
  \/ \E c \in Callers : P_Connect(c)

SpecRace == InitRace /\ [][NextRace]_vars

\* ----------------------------------------- the TracingWrapper used directly
\* tracing = TracingWrapper(handle_call); tracing.install(); ...;
\* tracing.uninstall(), on one thread, with a handle_call that only counts.
InitTW ==
  /\ InitCommon
  /\ pc = [c \in Callers |-> IF c = 1 THEN "tw_new" ELSE "absent"]

TW_Install(c) ==
  /\ pc[c] = "tw_new"
  /\ LET r == [RT EXCEPT !.W[c] = NewWrapper(RT, c, "count")]
     IN SetRT(Install(r, c))
  /\ hist' = [hist EXCEPT !.installs = @ + 1, !.pre[c] = PreInstall(c)]
  /\ pc' = [pc EXCEPT ![c] = "user"]
  /\ UNCHANGED <<publicVars, call, raised, innerVars, netVars>>
  /\ UNCHANGED helperVars

TW_Uninstall(c) ==
  /\ pc[c] = "user"
  /\ W[c].exists
  /\ hist.uninstall[c] = 0
  /\ SetRT(Uninstall(RT, c))
  /\ hist' = [hist EXCEPT !.uninstall[c] = @ + 1]
  /\ call' = [call EXCEPT ![c] = [NoCall EXCEPT !.op = "uninstall", !.last = "uninstall"]]
  /\ UNCHANGED <<publicVars, pc, raised, innerVars, netVars>>
  /\ UNCHANGED helperVars

NextTW ==
  \/ \E c \in Callers : TW_Install(c)
  \/ \E c \in Callers : EventCall(c)
  \/ \E c \in Callers : EventLine(c)
  \/ \E c \in Callers : TF_Finish(c)
  \/ \E c \in Callers : TW_Uninstall(c)

SpecTW == InitTW /\ [][NextTW]_vars

\* The wrapper's methods called in any order by the code that owns it:
\* construction alone, install() on a built wrapper, uninstall() whether or
\* not it is installed, and user code that sets a trace function itself.
TW_Construct(c) ==
  /\ pc[c] = "tw_new"
  /\ W' = [W EXCEPT ![c] = NewWrapper(RT, c, "count")]
  /\ pc' = [pc EXCEPT ![c] = "user"]
  /\ UNCHANGED <<publicVars, call, raised, innerVars, sys_settrace, thook,
                 f_trace, origTracing, netVars, hist>>
  /\ UNCHANGED helperVars

TW_InstallBuilt(c) ==
  /\ pc[c] = "user"
  /\ W[c].exists
  /\ hist.installs = 0
  /\ hist.uninstall[c] = 0
  /\ SetRT(Install(RT, c))
  /\ hist' = [hist EXCEPT !.installs = @ + 1, !.pre[c] = PreInstall(c)]
  /\ call' = [call EXCEPT ![c] = [NoCall EXCEPT !.op = "install", !.last = "install"]]
  /\ UNCHANGED <<publicVars, pc, raised, innerVars, netVars>>
  /\ UNCHANGED helperVars

TW_UninstallAgain(c) ==
  /\ pc[c] = "user"
  /\ W[c].exists
  /\ hist.uninstall[c] \in 1..(MaxOps - 1)
  /\ SetRT(Uninstall(RT, c))
  /\ hist' = [hist EXCEPT !.uninstall[c] = @ + 1]
  /\ call' = [call EXCEPT ![c] = [NoCall EXCEPT !.op = "uninstall", !.last = "uninstall"]]
  /\ UNCHANGED <<publicVars, pc, raised, innerVars, netVars>>
  /\ UNCHANGED helperVars

\* What user code passes to sys.settrace.
UserTracefuncs == {UserTrace, None}

\* User code on thread c calls sys.settrace(tracefunc).
UserSettrace(c) ==
  /\ pc[c] = "user"
  /\ hist.ops[c] < MaxOps
  /\ \E tracefunc \in UserTracefuncs : SetRT(SysSettrace(RT, tracefunc, c))
  /\ hist' = [hist EXCEPT !.ops[c] = @ + 1]
  /\ call' = [call EXCEPT ![c] = [NoCall EXCEPT !.op = "settrace", !.last = "settrace"]]
  /\ UNCHANGED <<publicVars, pc, raised, innerVars, netVars>>
  /\ UNCHANGED helperVars

NextTWU ==
  \/ \E c \in Callers : TW_Construct(c)
  \/ \E c \in Callers : TW_InstallBuilt(c)
  \/ \E c \in Callers : TW_Uninstall(c)
  \/ \E c \in Callers : TW_UninstallAgain(c)
  \/ \E c \in Callers : UserSettrace(c)
  \/ \E c \in Callers : EventCall(c)
  \/ \E c \in Callers : EventLine(c)
  \/ \E c \in Callers : TF_Finish(c)

SpecTWU == InitTW /\ [][NextTWU]_vars

\* ------------------------------ sys.settrace called while wrappers exist
\* Each calling thread builds and installs its own TracingWrapper and may
\* uninstall it; any thread, a calling thread or another one, calls
\* sys.settrace(tracefunc) at any time.
InitST ==
  /\ InitCommon
  /\ pc = [c \in Callers |-> "tw_new"]

\* sys.settrace(tracefunc) called on thread t.
SettraceCall(t, tracefunc) ==
  /\ t \in Callers => pc[t] = "user"
  /\ SetRT(SysSettrace(RT, tracefunc, t))
  /\ hist' = [hist EXCEPT !.settrace =
                [t |-> t, f |-> tracefunc, n |-> (@.n + 1) % 2]]
  /\ UNCHANGED <<publicVars, pc, call, raised, innerVars, netVars>>
  /\ UNCHANGED helperVars

NextST ==
  \/ \E c \in Callers : TW_Install(c)
  \/ \E c \in Callers : TW_Uninstall(c)
  \/ \E t \in Threads, tracefunc \in UserTracefuncs : SettraceCall(t, tracefunc)

SpecST == InitST /\ [][NextST]_vars

\* ------------------------------- _remote.enable_attach called directly
\* _remote.enable_attach(address, is_ready=f) on thread c, once per thread;
\* ready is what f returns at first.
CallInnerEnableAttach(c, address, ready) ==
  /\ pc[c] = "user"
  /\ hist.ops[c] < MaxOps
  /\ hist.calls[c] = 0
  /\ pc' = [pc EXCEPT ![c] = "ea_install"]
  /\ call' = [call EXCEPT ![c] = [NoCall EXCEPT !.op = "_remote.enable_attach",
                                               !.address = address]]
  /\ raised' = [raised EXCEPT ![c] = "none"]
  /\ hist' = [hist EXCEPT !.calls[c] = @ + 1, !.ops[c] = @ + 1,
                          !.first[c] = IF @ = "none" THEN address ELSE @]
  /\ isReady' = [isReady EXCEPT ![c] = ready]
  /\ UNCHANGED <<publicVars, innerVars, hookVars, netVars, fake, launch, guard, fw>>

\* line 111: return daemon, to the direct caller
Inner_Return(c) ==
  /\ pc[c] = "ea_ret"
  /\ call[c].op = "_remote.enable_attach"
  /\ Return(c, "_remote.enable_attach")
  /\ hist' = [hist EXCEPT !.returned[c] = @ + 1]
  /\ UNCHANGED <<publicVars, raised, innerVars, hookVars, netVars>>

\* What the caller's is_ready function returns changes.
IsReadyChanges(c) ==
  /\ readylock[c] # "none"
  /\ isReady' = [isReady EXCEPT ![c] = ~@]
  /\ UNCHANGED <<programVars, fake, launch, guard, fw>>

NextReady ==
  \/ \E c \in Callers, ready \in BOOLEAN : CallInnerEnableAttach(c, "valid", ready)
  \/ \E c \in Callers : EA_Install(c)
  \/ \E c \in Callers : EA_Arm(c)
  \/ \E c \in Callers : EA_StartThread(c)
  \/ \E c \in Callers : Inner_Return(c)
  \/ \E c \in Callers : IsReadyChanges(c)
  \/ \E c \in Callers : EventCall(c)
  \/ \E c \in Callers : EventLine(c)
  \/ \E c \in Callers : DCT_Join(c)
  \/ \E c \in Callers : DCT_Settrace(c)
  \/ \E c \in Callers : HT_Uninstall(c)
  \/ \E c \in Callers : HT_Release(c)
  \/ \E c \in Callers : TF_Finish(c)
  \/ \E c \in Callers : EngineStep(c)
  \/ \E k \in Callers : S_Accept(k)
  \/ \E s \in Sessions : SessionStep(s)

SpecReady == Init /\ [][NextReady]_vars

\* ------------------------------------- one enable_attach, then line events
\* The calling thread calls enable_attach once and then keeps executing the
\* lines of the calling frame; a client connects.  Every thread that can run
\* is scheduled: the calling thread, the 'start-pydevd' thread, the
\* 'sessions' thread accepting a connecting client, and each session's
\* thread up to its return from notify_ready.  Nothing makes a client
\* detach.
LiveCallerStep(c) ==
  \/ CallEnableAttach(c, "valid")
  \/ EA_Check(c)
  \/ EA_Set(c)
  \/ EA_Clear(c)
  \/ EA_Install(c)
  \/ EA_Arm(c)
  \/ EA_StartThread(c)
  \/ EA_Return(c)
  \/ EventLine(c)
  \/ DCT_Join(c)
  \/ DCT_Settrace(c)
  \/ HT_Uninstall(c)
  \/ HT_Release(c)
  \/ TF_Finish(c)

NotifyStep(s) ==
  \/ SessionReady(s)
  \/ NR_OnAttach(s)
  \/ NR_Acquire(s)
  \/ NR_Release(s)

NextLive ==
  \/ \E c \in Callers : LiveCallerStep(c)
  \/ \E c \in Callers : EngineStep(c)
  \/ \E k \in Callers : S_Accept(k)
  \/ \E s \in Sessions : NotifyStep(s)
  \/ \E s \in Sessions : SessionClose(s)

FairnessLive ==
  /\ \A c \in Callers : WF_vars(LiveCallerStep(c)) /\ WF_vars(EngineStep(c))
  /\ \A k \in Callers : WF_vars(S_Accept(k))
  /\ \A s \in Sessions : WF_vars(NotifyStep(s))

SpecLive == Init /\ [][NextLive]_vars /\ FairnessLive

\* ============================================ tests/helpers/pydevd/_fake.py
\* The FakePyDevd test double.  The peer (ptvsd) sends requests; each is a
\* Message(cmdid, seq, text) whose sequence number the peer chose.
CMD_RUN == 101
CMD_VERSION == 501
CmdIds == {CMD_RUN, CMD_VERSION}
Seqs == {1, 3}
VERSION == "1.1.1"
MaxMatchers == 2
FakeHandlers == {"None", "returns", "raises"}

Message(cmdid, seq, text) == [cmdid |-> cmdid, seq |-> seq, text |-> text]

\* lines 102-113: the default reply, as the list of messages to send
\* (empty for None).
get_response(req) ==
  IF req.cmdid = CMD_VERSION
  THEN <<Message(CMD_VERSION, req.seq, VERSION)>>
  ELSE <<>>

\* lines 92-100: the user handler is called first, unguarded; when it
\* raises, lines 98-100 are not reached.
handle_request(req, handler) ==
  IF handler = "raises"
  THEN [sent |-> <<>>, raised |-> TRUE]
  ELSE [sent |-> get_response(req), raised |-> FALSE]

\* lines 207-224: match(msg) of _new_matcher(cmdid), seq not given.
new_matcher(cmdid, msg) == msg.cmdid = cmdid

\* lines 133-135 and 161-163: the reply of a registered handler.
handle_msg(m, req) == Message(m.respid, req.seq, m.text)

\* lines 129-131 and 153-156: reqid defaults to cmdid (0 stands for None).
Registration(kind, cmdid, text, reqid) ==
  [kind |-> kind, reqid |-> IF reqid = 0 THEN cmdid ELSE reqid,
   respid |-> cmdid, text |-> text]

\* The dispatch of protocol.MessageDaemon for one received message: the
\* registered handlers whose matcher accepts it, in registration order, then
\* the default handler, whose exception is caught and recorded.
Matching(ms, req) == SelectSeq(ms, LAMBDA m : new_matcher(m.reqid, req))
NotMatching(ms, req) == SelectSeq(ms, LAMBDA m : ~new_matcher(m.reqid, req))
RegisteredReplies(ms, req) ==
  [i \in 1..Len(Matching(ms, req)) |-> handle_msg(Matching(ms, req)[i], req)]
Dispatch(ms, req, handler) ==
  [replies |-> RegisteredReplies(ms, req) \o handle_request(req, handler).sent,
   raised |-> handle_request(req, handler).raised]

\* lines 115-122: FakePyDevd(handler=...), started.
F_Construct(handler) ==
  /\ fake.state = "none"
  /\ fake' = [fake EXCEPT !.state = "started", !.handler = handler]
  /\ UNCHANGED <<programVars, launch, isReady, guard, fw>>

\* lines 152-165: add_pending_response(cmdid, text, reqid)
F_AddPendingResponse(cmdid, reqid) ==
  /\ fake.state = "started"
  /\ fake.ops < MaxOps
  /\ Len(fake.matchers) < MaxMatchers
  /\ fake' = [fake EXCEPT !.ops = @ + 1, !.matchers =
                Append(@, Registration("pending", cmdid, "ok", reqid))]
  /\ UNCHANGED <<programVars, launch, isReady, guard, fw>>

\* lines 127-140: wait_for_request(cmdid, text, reqid), entering the with block
F_WaitForRequest(cmdid, reqid) ==
  /\ fake.state = "started"
  /\ fake.ops < MaxOps
  /\ Len(fake.matchers) < MaxMatchers
  /\ fake' = [fake EXCEPT !.ops = @ + 1, !.matchers =
                Append(@, Registration("request", cmdid, "ok", reqid))]
  /\ UNCHANGED <<programVars, launch, isReady, guard, fw>>

\* A request from the peer is received and handled.
F_Receive(cmdid, seq) ==
  /\ fake.state = "started"
  /\ fake.ops < MaxOps
  /\ LET req == Message(cmdid, seq, "")
         d == Dispatch(fake.matchers, req, fake.handler)
     IN fake' = [fake EXCEPT
                   !.ops = @ + 1,
                   !.received = @ + 1,
                   !.matchers = NotMatching(@, req),
                   !.sent = @ \o d.replies,
                   !.failures = IF d.raised THEN @ + 1 ELSE @,
                   !.last = [req |-> req, matchers |-> fake.matchers,
                             replies |-> d.replies, raised |-> d.raised]]
  /\ UNCHANGED <<programVars, launch, isReady, guard, fw>>

NextFake ==
  \/ \E h \in FakeHandlers : F_Construct(h)
  \/ \E cmdid \in CmdIds, reqid \in CmdIds \cup {0} :
       F_AddPendingResponse(cmdid, reqid)
  \/ \E cmdid \in CmdIds, reqid \in CmdIds \cup {0} :
       F_WaitForRequest(cmdid, reqid)
  \/ \E cmdid \in CmdIds, seq \in Seqs : F_Receive(cmdid, seq)

SpecFake == Init /\ [][NextFake]_vars


\* ======================================== tests/system_tests/test_launch.py
\* The messages a DebugClient session receives in the launch tests, as the
\* tests assert them (self.assert_received), one message at a time.
Response(command) == [type |-> "response", name |-> command, reason |-> ""]
Event(event, reason) == [type |-> "event", name |-> event, reason |-> reason]
VersionEvent == Event("version", "")
Output == Event("output", "")

Handshake_BreakpointsLast(bps) ==
  <<VersionEvent, Response("initialize"), Event("initialized", ""),
    Response("launch"), Response("configurationDone"), Event("process", ""),
    Event("thread", "started")>> \o bps

\* the handshake part of every expected list; bps: the setBreakpoints
\* responses
Handshake(bps) ==
  <<VersionEvent, Response("initialize"), Event("initialized", ""),
    Response("launch")>> \o bps \o
  <<Response("configurationDone"), Event("process", ""),
    Event("thread", "started")>>

\* lines 281-315: stopped at the breakpoint, stack trace, continue
StoppedAndContinued ==
  <<Event("stopped", "breakpoint"), Event("module", "new"),
    Response("stackTrace"), Response("continue"), Event("continued", "")>>

LaunchTests == {"test_with_output", "test_with_arguments",
                "test_with_break_points",
                "test_with_break_points_across_files", "test_with_log_points",
                "test_with_conditional_break_points"}
LaunchClasses == {"FileLifecycleTests", "FileWithCWDLifecycleTests"}

\* the expected list of each test
Expected(test) ==
  CASE test = "test_with_output" ->
         Handshake(<<>>) \o <<Output, Output>>
    [] test = "test_with_arguments" ->
         Handshake(<<>>) \o <<Output, Output, Output, Output, Output>>
    [] test = "test_with_break_points" ->
         Handshake(<<Response("setBreakpoints")>>) \o StoppedAndContinued
    [] test = "test_with_break_points_across_files" ->
         Handshake(<<Response("setBreakpoints")>>) \o StoppedAndContinued
    [] test = "test_with_log_points" ->
         Handshake(<<Response("setBreakpoints")>>)
           \o <<Output, Output, Output, Output>>
    [] test = "test_with_conditional_break_points" ->
         Handshake(<<Response("setBreakpoints")>>) \o <<Output, Output>>
           \o StoppedAndContinued \o <<Output, Output, Output>>
    [] OTHER -> <<>>

\* a test method of one of the two test classes starts its session
L_Start(cls, test) ==
  /\ launch.test = "none"
  /\ launch' = [launch EXCEPT !.cls = cls, !.test = test]
  /\ UNCHANGED <<programVars, fake, isReady, guard, fw>>

\* the session receives its next message
L_Receive ==
  /\ launch.test # "none"
  /\ Len(launch.received) < Len(Expected(launch.test))
  /\ launch' = [launch EXCEPT !.received =
                  Append(@, Expected(launch.test)[Len(@) + 1])]
  /\ UNCHANGED <<programVars, fake, isReady, guard, fw>>

NextLaunch ==
  \/ \E cls \in LaunchClasses, test \in LaunchTests : L_Start(cls, test)
  \/ L_Receive

SpecLaunch == Init /\ [][NextLaunch]_vars

\* ===================================================== arming can fail ====
\* TracingWrapper._get_caller (lines 158-165): the first frame below the
\* frames named 'enable_attach'; None when enable_attach is the bottom frame
\* of its thread (a function started by _thread.start_new_thread).
get_caller(bottom) == IF bottom THEN None ELSE H("frame", 0)

\* _ensure_current_thread_will_debug (lines 143-144) with the caller frame
\* found by _get_caller: line 173 reads self._caller.f_trace, which raises
\* AttributeError for None; nothing in enable_attach catches it.
EA_ArmFrom(c, bottom) ==
  /\ pc[c] = "ea_arm"
  /\ IF get_caller(bottom) = None
       THEN /\ Raise(c, "AttributeError")
            /\ UNCHANGED <<publicVars, innerVars, hookVars, netVars, hist>>
       ELSE EA_Arm(c)

ArmCallerStep(c) ==
  \/ CallEnableAttach(c, "valid")
  \/ EA_Check(c)
  \/ EA_Set(c)
  \/ EA_Clear(c)
  \/ EA_Install(c)
  \/ \E bottom \in BOOLEAN : EA_ArmFrom(c, bottom)
  \/ EA_StartThread(c)
  \/ EA_Return(c)

NextArm == \E c \in Callers : ArmCallerStep(c)

SpecArm == Init /\ [][NextArm]_vars

\* ============================================ pydevd_hooks.protect_settrace
\* A calling thread enters a protect_settrace context (as install() and
\* uninstall() do through settrace_restored) or leaves it; any thread calls
\* pydevd_tracing.replace_sys_set_trace_func() as pydevd does.

\* lines 112-121: a new lock, acquired, and a new replace() bound to
\* pydevd_tracing.replace_sys_set_trace_func.
PS_Enter(t) ==
  /\ guard.ctx[t] = 0
  /\ guard.wait[t] = 0
  /\ guard.n < MaxOps
  /\ LET i == guard.n + 1
     IN guard' = [guard EXCEPT !.n = i, !.lock[i] = "held", !.attr = i,
                               !.ctx[t] = i]
  /\ UNCHANGED <<programVars, fake, launch, isReady, fw>>

\* lines 124-125: finally: lock.release()
PS_Exit(t) ==
  /\ guard.ctx[t] # 0
  /\ guard.wait[t] = 0
  /\ guard' = [guard EXCEPT !.lock[guard.ctx[t]] = "free", !.ctx[t] = 0]
  /\ UNCHANGED <<programVars, fake, launch, isReady, fw>>

\* pydevd_tracing.replace_sys_set_trace_func() on thread t: whatever is
\* bound to the attribute now is called, pydevd's function or the replace()
\* of the context that bound itself last (line 121).
R_Call(t) ==
  /\ guard.wait[t] = 0
  /\ guard.calls < MaxOps
  /\ IF guard.attr = 0
       THEN /\ SetRT(ReplaceSettrace(RT))
            /\ guard' = [guard EXCEPT !.calls = @ + 1]
       ELSE /\ guard' = [guard EXCEPT !.calls = @ + 1, !.wait[t] = guard.attr]
            /\ UNCHANGED hookVars
  /\ UNCHANGED <<publicVars, pc, call, raised, innerVars, netVars, hist>>
  /\ UNCHANGED <<fake, launch, isReady, fw>>

\* lines 117-118 of replace(): lock.acquire(); lock.release()
R_Pass(t) ==
  /\ guard.wait[t] >= 1
  /\ guard.lock[guard.wait[t]] = "free"
  /\ guard' = [guard EXCEPT !.wait[t] = Passed]
  /\ UNCHANGED <<programVars, fake, launch, isReady, fw>>

\* lines 119-120 of replace(): the attribute is bound to pydevd's function
\* again and that function is called.
R_Replace(t) ==
  /\ guard.wait[t] = Passed
  /\ guard' = [guard EXCEPT !.attr = 0, !.wait[t] = 0]
  /\ SetRT(ReplaceSettrace(RT))
  /\ UNCHANGED <<publicVars, pc, call, raised, innerVars, netVars, hist>>
  /\ UNCHANGED <<fake, launch, isReady, fw>>

NextPS ==
  \/ \E t \in Callers : PS_Enter(t)
  \/ \E t \in Callers : PS_Exit(t)
  \/ \E t \in Threads : R_Call(t)
  \/ \E t \in Threads : R_Pass(t)
  \/ \E t \in Threads : R_Replace(t)

SpecPS == Init /\ [][NextPS]_vars

\* ================================================ _remote.py FrameWrapper
\* Depth at which nested calls end in RecursionError (sys.getrecursionlimit,
\* scaled down: the recursion below never ends, whatever the limit).
RecursionLimit == 3

FrameNames == {"f_trace", "f_lineno"}
FrameValues(name) ==
  IF name = "f_trace" THEN {None, UserLocal, HIDDEN} ELSE {Line(1), Line(2)}

\* getattr(frame, name) and setattr(frame, name, value) on a real frame.
FrameGet(frame, name) ==
  IF name \in DOMAIN frame THEN frame[name] ELSE AttributeError

InDict(w, name) == \E p \in w.attrs : p[1] = name
DictGet(w, name) == (CHOOSE p \in w.attrs : p[1] = name)[2]

\* Reading attribute name of the wrapper: the instance __dict__ first, then
\* __getattr__ (lines 243-244), whose self._frame is such a read itself.
RECURSIVE FW_getattr(_, _, _)
FW_getattr(w, name, depth) ==
  IF InDict(w, name) THEN DictGet(w, name)
  ELSE IF depth = 0 THEN RecursionError
  ELSE LET fr == FW_getattr(w, "_frame", depth - 1)
       IN IF fr = RecursionError THEN RecursionError
          ELSE FrameGet(w.frame, name)

\* __setattr__ (lines 246-249): f_trace is dropped; every other name, _frame
\* included, is set on self._frame; nothing is stored in the wrapper.
FW_setattr(w, name, value) ==
  IF name = "f_trace" THEN [w EXCEPT !.result = None]
  ELSE LET fr == FW_getattr(w, "_frame", RecursionLimit)
       IN IF fr = RecursionError THEN [w EXCEPT !.result = RecursionError]
          ELSE IF name \in DOMAIN w.frame
                 THEN [w EXCEPT !.frame[name] = value, !.result = None]
                 ELSE [w EXCEPT !.result = AttributeError]

\* __new__ (lines 235-238): an existing wrapper is returned as it is,
\* otherwise a bare object is made.
FW_new(w, arg) ==
  IF arg = WrapperObj THEN w ELSE [w EXCEPT !.exists = TRUE, !.attrs = {}]

\* __init__ (lines 240-241): self._frame = frame
FW_init(w, arg) == FW_setattr(w, "_frame", arg)

Began(w, op, name, value) ==
  [w EXCEPT !.op = op, !.name = name, !.value = value, !.old = w.frame,
            !.ops = @ + 1]

\* FrameWrapper(arg): __new__, then __init__ on the object it returned; the
\* call gives the object unless __init__ raised.
FW_Construct(arg) ==
  /\ fw.ops < MaxOps
  /\ arg = WrapperObj => fw.exists
  /\ LET w == FW_init(FW_new(Began(fw, "construct", "none", arg), arg), arg)
     IN fw' = IF w.result = None THEN [w EXCEPT !.result = WrapperObj] ELSE w
  /\ UNCHANGED <<programVars, fake, launch, isReady, guard>>

\* wrapper.<name> on the object __new__ made
FW_Read(name) ==
  /\ fw.ops < MaxOps
  /\ fw.exists
  /\ LET w == Began(fw, "read", name, None)
     IN fw' = [w EXCEPT !.result = FW_getattr(w, name, RecursionLimit)]
  /\ UNCHANGED <<programVars, fake, launch, isReady, guard>>

\* wrapper.<name> = value on the object __new__ made
FW_Write(name, value) ==
  /\ fw.ops < MaxOps
  /\ fw.exists
  /\ fw' = FW_setattr(Began(fw, "write", name, value), name, value)
  /\ UNCHANGED <<programVars, fake, launch, isReady, guard>>

\* frame.<name> = value by the interpreter or by code holding the frame
F_Write(name, value) ==
  /\ fw.ops < MaxOps
  /\ fw' = [Began(fw, "frame_write", name, value) EXCEPT
              !.frame[name] = value, !.result = None]
  /\ UNCHANGED <<programVars, fake, launch, isReady, guard>>

NextFW ==
  \/ \E arg \in {FrameObj, WrapperObj} : FW_Construct(arg)
  \/ \E name \in FrameNames : FW_Read(name)
  \/ \E name \in FrameNames : \E value \in FrameValues(name) :
       FW_Write(name, value)
  \/ \E name \in FrameNames : \E value \in FrameValues(name) :
       F_Write(name, value)

SpecFW == Init /\ [][NextFW]_vars

\* ==================================================================== claims
EAPcs == {"ea_check", "ea_set", "ea_clear", "ea_install", "ea_arm", "ea_thread",
          "ea_ret"}

ProgramState == <<publicVars, innerVars, hookVars, netVars>>

C2_AtMostOneSetup == hist.daemons <= 1 /\ hist.installs <= 1

\* C3: enable_attach with a valid address never ends in an exception.
C3_NeverRaises ==
  \A c \in Callers :
    (call[c].op = "enable_attach" /\ call[c].address = "valid") => raised[c] = "none"

\* C4: after install() and then uninstall() on the owner thread, with no
\* settrace call but the wrapper's own in between, sys.settrace, the owner's
\* trace function and the caller frame's f_trace are what they were just
\* before install().
C4_Restored ==
  \A c \in Callers :
    (pc[c] = "user" /\ hist.uninstall[c] >= 1)
      => /\ sys_settrace = hist.pre[c].ss
         /\ thook[c] = hist.pre[c].th
         /\ f_trace[c] = hist.pre[c].ft

\* C5: over every sequence of instrumented events on the owner thread, the
\* enable callback, uninstall() and the release of the ready lock each
\* happen at most once (and together).
C5_ExactlyOnce ==
  \A c \in Callers :
    /\ hist.enable[c] <= 1 /\ hist.uninstall[c] <= 1 /\ hist.release[c] <= 1
    /\ (pc[c] = "user" /\ hist.enable[c] = 1)
         => (hist.uninstall[c] = 1 /\ hist.release[c] = 1)

\* C6: whenever notify_ready is past its acquire of the ready lock, no hook
\* of the wrapper is in place: sys.settrace, the owner's trace function and
\* the caller frame's f_trace are not the wrapper's.
C6_HooksRestoredOnceAcquired ==
  \A s \in Sessions :
    sess[s].nr \in {"release", "returned"}
      => /\ sys_settrace # WSettrace(sess[s].d)
         /\ thook[sess[s].d] # WTracefunc(sess[s].d)
         /\ f_trace[sess[s].d] # WLocal(sess[s].d)

\* C7: when wait_for_attach returns, attached, on the thread that called
\* enable_attach, that thread's own enabling (the current-thread settrace)
\* has been done.
C7_EnabledBeforeReturn ==
  \A c \in Callers :
    (pc[c] = "user" /\ call[c].last = "wait_for_attach" /\ call[c].woke
       /\ W[c].exists)
      => hist.enable[c] >= 1

ClientAttached ==
  \E s \in Sessions : sess[s].conn = "open" /\ sess[s].nr \notin {"idle", "on_attach"}

\* C10: is_attached() is true exactly while a remote debugger is attached.
C10_IsAttachedExact == is_attached <=> ClientAttached

\* No client ever connects.
NoClientEver == [](\A s \in Sessions : sess[s].conn = "none")

\* C11: in every execution in which no client ever connects, a calling
\* thread that an instrumented event has sent into debug_current_thread
\* (the wait for the 'start-pydevd' thread) comes out of it again.
C11_NeverBlocked ==
  NoClientEver => \A c \in Callers : (pc[c] = "dct_join") ~> (pc[c] # "dct_join")

\* C12: when the client's session was ready (the engine told to run) before
\* the calling thread's first instrumented event fired, on_attach() has been
\* invoked by the time handle_tracing has released the ready lock.
C12_OnAttachBeforeRelease ==
  \A c \in Callers :
    (call[c].op = "event" /\ call[c].ready /\ hist.handled[c] = 1
       /\ hist.release[c] >= 1)
      => hist.onAttach >= 1

\* The daemon's server socket has been bound and listens (or did, until closed).
Listening(k) == daemon[k] \in {"listening", "closed"}

\* C13: on_attach is never invoked before the daemon's start_server step:
\* a session that has reached its notify_ready call belongs to a daemon that
\* listens, whose 'sessions' thread has been started, and the attach
\* notification is set only after that.
C13_ListeningBeforeOnAttach ==
  /\ \A s \in Sessions :
       sess[s].nr # "idle" => (Listening(sess[s].d) /\ sthread[sess[s].d] # "none")
  /\ (hist.onAttach >= 1 \/ attached) => \E k \in Callers : Listening(k)

C13_Witness ==
  /\ hist.onAttach >= 1
  /\ attached
  /\ \E s \in Sessions : sess[s].nr = "acquire" /\ Listening(sess[s].d)

Running == {"initial", "loop"}

\* C14: an exception other than DaemonClosedError/DaemonStoppedError raised
\* while accepting or starting a session never ends the accept loop, at the
\* first iteration or at a later one: the thread goes on to wait for the
\* next connection.
C14_FailureKeepsLoop ==
  [][\A k \in Callers :
       hist'.fails[k] > hist.fails[k]
         => (sthread[k] \in Running /\ sthread'[k] = "loop")]_vars

C14_Witness ==
  /\ hist.failAt[1] = {"initial", "loop"}
  /\ sthread[1] = "loop"
  /\ \A s \in Sessions : sess[s].conn = "open"

\* C15: the accept loop ends only when accepting finds the daemon closed or
\* stopped, and then, at the initial wait as at any later one, through the
\* handled exit that reaches 'done': the thread never dies of the exception.
C15_EndsOnlyHandled ==
  [][\A k \in Callers :
       /\ (sthread[k] \in Running /\ sthread'[k] \notin Running)
            => (daemon[k] = "closed" /\ sthread'[k] = "done")
       /\ (sthread[k] \in Running /\ daemon[k] = "closed" /\ sthread'[k] # sthread[k])
            => sthread'[k] = "done"]_vars

\* C16: start_server returns to its caller (the engine's thread goes on)
\* without a connection being taken in that step; connections are taken
\* only in steps of the 'sessions' thread, which are not steps of any other
\* thread, one connection per step.
C16_AcceptOnlyOnSessionsThread ==
  [][/\ \A c \in Callers :
          (tstate[c] = "started" /\ tstate'[c] # "started") => sess' = sess
     /\ \A s \in Sessions :
          (sess[s].conn = "none" /\ sess'[s].conn = "open")
            => /\ pc' = pc /\ tstate' = tstate
               /\ sthread[sess'[s].d] \in Running
               /\ sthread'[sess'[s].d] = "loop"
               /\ \A o \in Sessions \ {s} : sess'[o] = sess[o]]_vars

C16_Witness ==
  /\ tstate[1] = "waitrun"
  /\ sthread[1] = "loop"
  /\ \A s \in Sessions : sess[s].conn = "open" /\ sess[s].d = 1

\* C17: once the daemon of enable_attach(address=(host, port)) listens, its
\* socket is bound to that host and that port.
C17_BoundAsAsked ==
  \A k \in Callers :
    server[k].sock # NoSock
      => server[k].sock = [host |-> HostOf(server[k].addr),
                           port |-> PortOf(server[k].addr)]

\* C18: break_into_debugger goes on to request a suspend exactly when attach
\* is enabled and the attach notification is set; otherwise it returns
\* having changed no program state; and a suspend is requested by nothing
\* else.
C18_BreakIffAttached ==
  [][\A c \in Callers :
       /\ (pc[c] = "bid_check" /\ pc'[c] # "bid_check")
            => IF attached /\ enabled
                 THEN pc'[c] = "bid_settrace"
                 ELSE /\ pc'[c] = "user"
                      /\ UNCHANGED ProgramState
                      /\ raised' = raised
                      /\ hist'.suspends = hist.suspends
       /\ (pc[c] = "bid_settrace" /\ pc'[c] # "bid_settrace")
            => hist'.suspends[c] = hist.suspends[c] + 1
       /\ hist'.suspends[c] # hist.suspends[c]
            => (pc[c] = "bid_settrace" /\ enabled /\ attached)]_vars

C18_Witness ==
  /\ pc[1] = "user"
  /\ call[1].last = "break_into_debugger"
  /\ hist.suspends[1] = 1
  /\ attached /\ enabled

\* The wrapper of thread c is installed: install() has run, uninstall() not.
Installed(c) == W[c].exists /\ hist.installs >= 1 /\ hist.uninstall[c] = 0

\* C19: uninstall() of a wrapper that is not installed (never installed, or
\* uninstalled before) leaves sys.settrace, the thread's trace function and
\* the caller frame's f_trace as they were just before the call.
C19_UninstallNoOp ==
  [][\A c \in Callers :
       (hist'.uninstall[c] = hist.uninstall[c] + 1 /\ ~Installed(c))
         => /\ sys_settrace' = sys_settrace
            /\ thook'[c] = thook[c]
            /\ f_trace'[c] = f_trace[c]]_vars

\* C20 (as claimed): the ready lock starts Held, is released once, and once
\* Released is never Held again.
C20_NeverHeldAgain ==
  [][\A k \in Callers :
       /\ (readylock[k] = "none" /\ readylock'[k] # "none") => readylock'[k] = "Held"
       /\ readylock[k] = "Released" => readylock'[k] = "Released"]_vars

\* Some notify_ready call for daemon k is between its acquire (line 54) and
\* its release (line 55).
InNotifyPair(k) == \E s \in Sessions : sess[s].d = k /\ sess[s].nr = "release"

\* C20 (amended): the ready lock starts Held and stays Held until
\* handle_tracing releases it; after that it is Held only while a
\* notify_ready call is between its acquire and its release.
C20_HeldOnlyInNotifyPair ==
  \A k \in Callers :
    readylock[k] # "none"
      => /\ hist.release[k] = 0 => (readylock[k] = "Held" /\ ~InNotifyPair(k))
         /\ (hist.release[k] >= 1 /\ readylock[k] = "Held") => InNotifyPair(k)

C20_Witness ==
  /\ hist.release[1] >= 1
  /\ readylock[1] = "Held"
  /\ InNotifyPair(1)
  /\ \E s \in Sessions : sess[s].d = 1 /\ sess[s].nr = "returned"

\* The default reply to req is among the replies sent for it.
DefaultReplySent(req, replies) ==
  \E i \in 1..Len(replies) : replies[i] = Message(CMD_VERSION, req.seq, VERSION)

\* C21: every reply the fake daemon sends for a request carries that
\* request's sequence number; a request with the version command id gets the
\* reply Message(CMD_VERSION, seq, VERSION) and a request with any other
\* command id gets no default reply.
C21_RepliesEchoSeq ==
  fake.received > 0 =>
    /\ \A i \in 1..Len(fake.last.replies) :
         fake.last.replies[i].seq = fake.last.req.seq
    /\ (fake.last.req.cmdid = CMD_VERSION)
         <=> DefaultReplySent(fake.last.req, fake.last.replies)

\* C22: an exception raised by the user-supplied handler is recorded and
\* otherwise ignored: the replies sent for the message being handled are the
\* ones sent when the handler returns.
C22_HandlerErrorIgnored ==
  (fake.received > 0 /\ fake.last.raised) =>
    /\ fake.failures > 0
    /\ fake.last.replies =
         Dispatch(fake.last.matchers, fake.last.req, "returns").replies

\* The place of a message in the order of C23 (0: not named by the claim).
LaunchRank(msg) ==
  CASE msg = Response("initialize") -> 1
    [] msg = Event("initialized", "") -> 2
    [] msg = Response("launch") -> 3
    [] msg = Response("setBreakpoints") -> 4
    [] msg = Response("configurationDone") -> 5
    [] msg = Event("process", "") -> 6
    [] msg = Event("thread", "started") -> 7
    [] msg.type = "event" /\ msg.name \in {"output", "stopped"} -> 8
    [] OTHER -> 0

\* C23: in every launch session the received messages are ordered:
\* initialize response, 'initialized' event, launch response, any
\* setBreakpoints responses, configurationDone response, 'process' event,
\* 'thread started' event, and only then program output or 'stopped' events.
C23_LaunchOrder ==
  LET r == launch.received
  IN /\ \A i, j \in 1..Len(r) :
          (i < j /\ LaunchRank(r[i]) > 0 /\ LaunchRank(r[j]) > 0)
            => LaunchRank(r[i]) <= LaunchRank(r[j])
     /\ \A j \in 1..Len(r) : \A k \in {1, 2, 3, 5, 6, 7} :
          (LaunchRank(r[j]) > k)
            => \E i \in 1..(j - 1) : LaunchRank(r[i]) = k

C23_Witness ==
  /\ launch.test = "test_with_conditional_break_points"
  /\ Len(launch.received) = Len(Expected(launch.test))
  /\ \E i, j \in 1..Len(launch.received) :
       /\ i < j
       /\ launch.received[i] = Response("setBreakpoints")
       /\ launch.received[j] = Event("stopped", "breakpoint")

\* C24: the current-thread enabling call (settrace with
\* trace_only_current_thread=True) is started only after the 'start-pydevd'
\* thread of the same enable_attach has ended, that is after its settrace
\* call has returned: debug_current_thread passes t.join() first.
C24_JoinBeforeEnable ==
  \A c \in Callers :
    pc[c] = "dct_settrace" => tstate[call[c].inv] = "finished"

C24_Witness ==
  \E c \in Callers :
    /\ hist.enable[c] >= 1
    /\ pc[c] = "ht_uninstall"
    /\ tstate[call[c].inv] = "finished"
    /\ engine.ready_to_run

\* install() has been done for thread c and not undone: sys.settrace is the
\* wrapper's _settrace and the caller frame's f_trace its _local_tracefunc.
InjectorArmed(c) == sys_settrace = WSettrace(c) /\ f_trace[c] = WLocal(c)

\* An instrumented event of thread c enters its wrapper in this step.
EntersWrapper(c) ==
  /\ hist'.handled[c] = hist.handled[c] + 1
  /\ W[c].handler = "handle_tracing"

\* The enable/uninstall/release sequence of handle_tracing, in this order.
InSequenceOrder(c) ==
  /\ pc[c] \in {"dct_join", "dct_settrace"}
       => hist.uninstall[c] = hist.enable[c] /\ hist.release[c] = hist.enable[c]
  /\ pc[c] = "ht_uninstall"
       => hist.enable[c] = hist.uninstall[c] + 1
            /\ hist.release[c] = hist.uninstall[c]
  /\ pc[c] = "ht_release"
       => hist.enable[c] = hist.uninstall[c]
            /\ hist.uninstall[c] = hist.release[c] + 1
  /\ (pc[c] = "tf_finish" /\ call[c].ret = "handle_tracing")
       => hist.enable[c] >= 1 /\ hist.uninstall[c] = hist.enable[c]
            /\ hist.release[c] = hist.enable[c]

\* C25: an instrumented event at which is_ready() returns false does not
\* call enable, and until an event has found is_ready() true the injector
\* stays installed and the ready lock stays Held; an event at which
\* is_ready() returns true calls enable and then performs uninstall and
\* release, in this order.
C25_NotReadyNoEffect ==
  [][\A c \in Callers :
       /\ EntersWrapper(c)
            => IF isReady[c] THEN pc'[c] = "dct_join"
               ELSE /\ pc'[c] = "tf_finish"
                    /\ call'[c].ret # "handle_tracing"
       /\ (pc'[c] \notin {"ea_install", "ea_arm"} /\ W'[c].exists
             /\ hist'.enable[c] = 0)
            => /\ InjectorArmed(c)'
               /\ readylock'[c] = "Held"
               /\ hist'.uninstall[c] = 0 /\ hist'.release[c] = 0
       /\ InSequenceOrder(c)']_vars

C25_Witness ==
  \E c \in Callers :
    /\ call[c].op = "event" /\ pc[c] = "ht_release"
    /\ hist.handled[c] >= 2
    /\ hist.enable[c] = 1 /\ hist.uninstall[c] = 1 /\ hist.release[c] = 0
    /\ readylock[c] = "Held"

\* C26: enable_attach performs its steps in the order Session Daemon
\* installed, 'start-pydevd' thread created and started, injector armed on
\* the calling thread: the thread exists only with the daemon installed, and
\* the injector is armed only with the thread started.
C26_ThreadBeforeInjector ==
  \A c \in Callers :
    /\ tstate[c] # "unassigned" => daemon[c] # "none"
    /\ InjectorArmed(c) => tstate[c] # "unassigned"

\* C27: notify_ready calls on_attach() first, returns to the daemon only
\* after handle_tracing has released the ready lock, and does return (it
\* neither stays blocked nor raises) for every session that finds the lock
\* released.
C27_NotifyReturnsAfterRelease ==
  \A s \in Sessions :
    /\ sess[s].nr \in {"acquire", "release", "returned"} => hist.onAttach >= 1
    /\ sess[s].nr = "returned" => hist.release[sess[s].d] >= 1
    /\ sess[s].nr # "RuntimeError"

\* C28: debug_current_thread() is performed at most once for a thread; a
\* thread is in _pending_threads only while its enabling has not been
\* performed, and it has left the set when wait_for_attach runs its enabling.
C28_EnabledAtMostOnce ==
  \A c \in Callers :
    /\ hist.enable[c] <= 1
    /\ c \in pending => hist.enable[c] = 0
    /\ (pc[c] \in {"dct_join", "dct_settrace"}
          /\ call[c].ret = "wait_for_attach") => c \notin pending

\* sys.settrace(f) has been called on thread t in this step.
SettraceCalled(t, f) ==
  /\ hist'.settrace.n # hist.settrace.n
  /\ hist'.settrace.t = t
  /\ hist'.settrace.f = f

\* C29: while the wrapper of thread c is what sys.settrace is bound to, a
\* settrace call from another thread has exactly the effect of the original
\* settrace called with the same function and leaves the wrapper's saved
\* values as they are; a call from the owner thread leaves the thread's
\* trace function, sys.settrace and f_trace alone and only stores the given
\* function as _orig_tracefunc, the value uninstall() gives back.
C29_SettraceRouting ==
  [][\A c \in Callers, t \in Threads, f \in UserTracefuncs :
       (SettraceCalled(t, f) /\ sys_settrace = WSettrace(c))
         => IF t # W[c].tid
              THEN /\ W'[c] = W[c]
                   /\ RT' = CallSettrace(RT, W[c].orig_settrace, f, t, ChainFuel)
              ELSE /\ thook' = thook
                   /\ sys_settrace' = sys_settrace
                   /\ f_trace' = f_trace
                   /\ W' = [W EXCEPT ![c].orig_tracefunc = f]
                   /\ Uninstall(RT', c).th[c] = f]_vars

C29_Witness ==
  /\ sys_settrace = WSettrace(1)
  /\ hist.settrace.t = EngineThread(1)
  /\ thook[EngineThread(1)] = UserTrace
  /\ thook[1] = None
  /\ W[1].orig_tracefunc = UserTrace

\* C30: while installed the wrapper keeps and chains the hooks it found:
\* the saved trace function and the saved local trace function are the ones
\* in place before install(), every event that enters the wrapper runs the
\* saved hook once after handle_call (never for pydevd's own dispatch as the
\* local hook), and the wrapper never calls itself.
C30_ChainsPreexisting ==
  \A c \in Callers :
    (Installed(c) /\ pc[c] = "user")
      => /\ W[c].orig_tracefunc = hist.pre[c].th
         /\ W[c].orig_f_tracefunc = hist.pre[c].ft
         /\ raised[c] # "RecursionError"
         /\ hist.pre[c].ft \notin {None, HIDDEN}
              => hist.chained[c] = hist.handled[c]
         /\ hist.pre[c].ft = HIDDEN => hist.chained[c] = 0

\* C31: with every thread scheduled, the calling thread executing further
\* lines and a client connecting, the ready lock made by enable_attach is
\* eventually released by handle_tracing, and every notify_ready call that
\* has started eventually returns.
C31_EventuallyReleased ==
  /\ \A k \in Callers : (readylock[k] = "Held") ~> (hist.release[k] >= 1)
  /\ \A s \in Sessions :
       (sess[s].nr \in {"on_attach", "acquire", "release"})
         ~> (sess[s].nr = "returned")

\* C32: an enable_attach call that raised InvalidAddress leaves the
\* coordinator not enabled, and an enable_attach call with a valid address
\* never returns as a no-op while no setup has been performed.
C32_FailureLeavesDisabled ==
  \A c \in Callers :
    /\ (pc[c] = "user" /\ raised[c] = "InvalidAddress") => ~enabled
    /\ (pc[c] = "user" /\ call[c].op = "enable_attach"
          /\ call[c].last = "enable_attach" /\ call[c].address = "valid")
         => hist.daemons >= 1

\* C33: when arming the injector fails inside enable_attach, nothing of the
\* attempt is left: no engine-start thread, pydevd's start_server and
\* start_client not redirected to a daemon, no hook of the wrapper installed.
C33_ArmFailureLeavesNothing ==
  \A c \in Callers :
    (pc[c] = "user" /\ raised[c] = "AttributeError") =>
      /\ tstate[c] = "unassigned"
      /\ startHook = 0
      /\ sys_settrace # WSettrace(c)
      /\ thook[c] # WTracefunc(c)
      /\ f_trace[c] # WLocal(c)

\* C34: while a protect_settrace context stays entered, no step changes
\* sys.settrace (a call of the replace function by another thread waits for
\* the exit), also when contexts of two threads overlap; and when a call
\* that had to wait has run, pydevd's own replace function is bound again.
C34_ReplaceWaitsForExit ==
  [][/\ (\E i \in 1..MaxOps :
           guard.lock[i] = "held" /\ guard'.lock[i] = "held")
          => sys_settrace' = sys_settrace
     /\ \A t \in Threads :
          (guard.wait[t] = Passed /\ guard'.wait[t] = 0) => guard'.attr = 0
    ]_vars

\* C35: settrace_restored restores the original sys.settrace only for the
\* duration of the context: once install() has left it, pydevd's replacement
\* of sys.settrace is in place again exactly if it was in place before.
C35_ReplacementReinstalled ==
  \A c \in Callers :
    (W[c].exists /\ hist.installs >= 1 /\ hist.uninstall[c] = 0) =>
      ((origTracing # None) <=> (hist.pre[c].ss = PydevdST))

\* C36: a FrameWrapper can be constructed around any frame (constructing one
\* around a wrapper gives that wrapper); every attribute read gives the
\* frame's value; a write to f_trace leaves the frame's f_trace as it was;
\* every other write reaches the frame.
C36_FrameWrapperForwards ==
  /\ fw.op = "construct" => fw.result = WrapperObj
  /\ fw.op = "read" => fw.result = fw.frame[fw.name]
  /\ (fw.op = "write" /\ fw.name = "f_trace") =>
       (fw.result = None /\ fw.frame = fw.old)
  /\ (fw.op = "write" /\ fw.name # "f_trace") =>
       (fw.result = None /\ fw.frame[fw.name] = fw.value)

====
